---- MODULE Spec2Model ----
(***************************************************************************)
(* Model of src/main.py: one HTTP request to get_refresh_token, the        *)
(* browser-driven login of MicrosoftOAuthAutomator.automate_login and the  *)
(* token exchange of exchange_code_for_token.                              *)
(*                                                                         *)
(* Strings are sequences of tokens; Python's substring test `a in b` is    *)
(* contiguous containment of token sequences.  None is the one-token       *)
(* sequence None, the empty string is << >>.  Every driver call reads the  *)
(* page anew: what it returns is chosen among PageUrls / PageTexts, or the *)
(* call faults.                                                            *)
(***************************************************************************)
EXTENDS Integers, Sequences, FiniteSets, TLC

VARIABLES
    pc,             \* position of the request in get_refresh_token / automate_login
    browser,        \* "none"; "open" once launched; "closed" once browser.close() completed
    auth_code,      \* self.auth_code
    error,          \* self.error
    response,       \* what the request is answered with
    posts,          \* number of requests.post calls to the token endpoint
    token_data,     \* the parsed body the token endpoint answered with, if it did
    navs,           \* number of page.goto calls
    runs,           \* number of automate_login calls
    session,        \* "none", "running", "returned", "raised": the call of automate_login
    i,              \* index of the candidate of the selector loop in progress
    qualified,      \* candidates of the field loop observed visible and enabled
    fills,          \* candidates of the field loop page.fill was called on
    faulted,        \* candidates of the field loop whose fill or settle wait raised
    filledBy,       \* candidate whose fill completed (email_filled / password_filled), 0 if none
    clicks,         \* successful page.click calls of the proceed loop in progress
    enters,         \* keyboard.press('Enter') calls of the step in progress
    account_status, \* result of _check_account_status, "unset" before it returns
    current_url,    \* the local current_url of _check_account_status
    page_content,   \* the local page_content of _check_account_status
    final_content,  \* the local final_content of _check_account_status
    status_path,    \* the return statement _check_account_status left by
    status_fault,   \* a call raised while _check_account_status was running
    attempt,        \* the local attempt of _handle_additional_prompts
    dismissed,      \* prompt kinds whose confirm control was clicked, in order
    passes,         \* per pass of the prompt loop: what the page showed, how the pass
                    \* ended, the candidate lists that were tried
    entered,        \* states of the login state machine entered, in order
    swallowed,      \* a driver call raised and a local except clause caught it
    elapsed,        \* time.time() - start_time of the poll loop, in half seconds
    code_url,       \* the URL auth_code was taken from
    code_path,      \* "none", "poll", "fallback": the extraction path that set auth_code
    final_url,      \* the local final_url of _extract_auth_code
    poll_fault      \* a pass of the poll loop of _extract_auth_code raised

vars == <<pc, browser, auth_code, error, response, posts, token_data, navs, runs, session,
          i,
          qualified, fills, faulted, filledBy, clicks, enters, account_status,
          current_url, page_content, final_content, status_path, status_fault,
          attempt, dismissed, passes, entered, swallowed, elapsed, code_url, code_path, final_url,
          poll_fault>>

----------------------------------------------------------------------------
(* Python values *)

None == <<"None">>

Truthy(x) == x # None /\ x # << >>

\* `needle in s`
Contains(s, needle) ==
    \E k \in 1..(Len(s) - Len(needle) + 1) : SubSeq(s, k, k + Len(needle) - 1) = needle

\* any(phrase in s for phrase in phrases)
ContainsAny(s, phrases) == \E p \in phrases : Contains(s, p)

\* str.lower(), token by token
LowerTok(t) ==
    CASE t = "That" -> "that"
      [] t = "Password" -> "password"
      [] t = "Account" -> "account"
      [] t = "Accept" -> "accept"
      [] t = "Stay" -> "stay"
      [] t = "Permissions" -> "permissions"
      [] t = "Error" -> "error"
      [] OTHER -> t

Lower(s) == [k \in 1..Len(s) |-> LowerTok(s[k])]

\* str.strip(): leading and trailing blanks removed
RECURSIVE Strip(_)
Strip(s) ==
    IF s = << >> THEN s
    ELSE IF Head(s) = " " THEN Strip(Tail(s))
    ELSE IF s[Len(s)] = " " THEN Strip(SubSeq(s, 1, Len(s) - 1))
    ELSE s

\* position of the first token t in s, 0 if there is none
IndexOf(s, t) ==
    IF \E k \in 1..Len(s) : s[k] = t
    THEN CHOOSE k \in 1..Len(s) : s[k] = t /\ \A j \in 1..(k - 1) : s[j] # t
    ELSE 0

\* urllib.parse.quote(s) with the default safe='/': ':' and ' ' are escaped
QuoteTok(t) ==
    CASE t = ":" -> "%3A"
      [] t = " " -> "%20"
      [] OTHER -> t

Quote(s) == [k \in 1..Len(s) |-> QuoteTok(s[k])]

\* urllib.parse.unquote, as parse_qs applies it to names and values
UnquoteTok(t) ==
    CASE t = "%3A" -> ":"
      [] t = "%20" -> " "
      [] t = "%2B" -> "+"
      [] t = "+" -> " "
      [] OTHER -> t

Unquote(s) == [k \in 1..Len(s) |-> UnquoteTok(s[k])]

\* urllib.parse.urlparse(url).query: the fragment is cut at the first '#',
\* the query is what follows the first '?' of the rest
UrlQuery(url) ==
    LET h == IndexOf(url, "#")
        rest == IF h = 0 THEN url ELSE SubSeq(url, 1, h - 1)
        q == IndexOf(rest, "?")
    IN IF q = 0 THEN << >> ELSE SubSeq(rest, q + 1, Len(rest))

\* the fields of a query string, split at '&'
RECURSIVE QueryFields(_)
QueryFields(q) ==
    IF q = << >> THEN << >>
    ELSE LET a == IndexOf(q, "&")
         IN IF a = 0 THEN <<q>>
            ELSE <<SubSeq(q, 1, a - 1)>> \o QueryFields(SubSeq(q, a + 1, Len(q)))

\* urllib.parse.parse_qs(query).get(name, [None])[0]: the first field
\* name=value with a non-blank value (blank values are dropped), unquoted
ParseQsFirst(query, name) ==
    LET fs == QueryFields(query)
        Hit(k) == LET e == IndexOf(fs[k], "=")
                  IN /\ e > 0
                     /\ Unquote(SubSeq(fs[k], 1, e - 1)) = name
                     /\ e < Len(fs[k])
        Val(k) == LET e == IndexOf(fs[k], "=")
                  IN Unquote(SubSeq(fs[k], e + 1, Len(fs[k])))
    IN IF \E k \in 1..Len(fs) : Hit(k)
       THEN Val(CHOOSE k \in 1..Len(fs) : Hit(k) /\ \A j \in 1..(k - 1) : ~Hit(j))
       ELSE None

\* re.search(r'code=([^&]+)', url): group(1) of the leftmost match, None if
\* there is no match
RegexCode(url) ==
    LET At(k) == /\ k + 2 <= Len(url)
                 /\ url[k] = "code" /\ url[k + 1] = "="
                 /\ url[k + 2] # "&"
    IN IF \E k \in 1..Len(url) : At(k)
       THEN LET k == CHOOSE m \in 1..Len(url) : At(m) /\ \A j \in 1..(m - 1) : ~At(j)
                tail == SubSeq(url, k + 2, Len(url))
                a == IndexOf(tail, "&")
            IN IF a = 0 THEN tail ELSE SubSeq(tail, 1, a - 1)
       ELSE None

----------------------------------------------------------------------------
(* Configuration and the authorization URL *)

CLIENT_ID == <<"8caf5ed3">>
SCOPES == <<"offline_access", " ", "Mail.Read">>

\* dynamic_redirect_uri = f"{service_url}/callback"
redirect_uri == <<"http", ":", "//", "host", "/callback">>

auth_endpoint == <<"https", ":", "//", "login.microsoftonline.com", "/common/oauth2/v2.0/authorize">>

generate_auth_url ==
    auth_endpoint \o <<"?", "client_id", "=">> \o CLIENT_ID
        \o <<"&", "response_type", "=", "code">>
        \o <<"&", "redirect_uri", "=">> \o Quote(redirect_uri)
        \o <<"&", "response_mode", "=", "query">>
        \o <<"&", "scope", "=">> \o Quote(SCOPES)
        \o <<"&", "state", "=", "12345">>

----------------------------------------------------------------------------
(* What the page can show: the URLs page.url can return and the texts      *)
(* text_content('body') and inner_text() can return.                       *)

LoginUrl == <<"https", ":", "//", "login.live.com", "/", "login.srf">>

PostUrl == <<"https", ":", "//", "login.live.com", "/", "ppsecure", "/", "post.srf">>

InvalidGrantUrl ==
    <<"https", ":", "//", "login.microsoftonline.com", "/", "reprocess",
      "?", "Error", "=", "invalid_grant">>

ProviderCodeUrl ==
    <<"https", ":", "//", "login.live.com", "/", "oauth20_authorize.srf",
      "?", "code", "=", "prov1">>

CallbackCodeUrl == redirect_uri \o <<"?", "code", "=", "M.C5", "%2B", "&", "state", "=", "12345">>

CallbackDeniedUrl == redirect_uri \o <<"?", "error", "=", "access_denied">>

CallbackBlankCodeUrl == redirect_uri \o <<"?", "code", "=", "&", "state", "=", "12345">>

CallbackErrorCodeUrl == redirect_uri \o <<"?", "error", "_", "code", "=", "50126">>

CallbackFragmentUrl == redirect_uri \o <<"#", "code", "=", "frag1">>

PageUrls ==
    { generate_auth_url, LoginUrl, PostUrl, InvalidGrantUrl, ProviderCodeUrl,
      CallbackCodeUrl, CallbackDeniedUrl, CallbackBlankCodeUrl, CallbackErrorCodeUrl,
      CallbackFragmentUrl }

WelcomeText == <<"Sign", "in", "to", "continue">>

LockedText == <<"Your", "Account", "has", "been", "locked">>

BadPasswordText == <<"That", "Password", "is", "incorrect">>

LockedBadPasswordText == BadPasswordText \o <<".">> \o LockedText

NotFoundText == <<"we", "couldn't", "find", "an", "account">>

ConsentText == <<"Permissions", "requested">>

StayText == <<"Stay", "signed", "in", "?">>

ConsentStayText == StayText \o <<"allow">>

PageTexts ==
    { None, << >>, WelcomeText, LockedText, BadPasswordText, LockedBadPasswordText,
      NotFoundText, ConsentText, StayText, ConsentStayText }

ValidationTexts ==
    { << >>, <<" ">>, <<"Enter", "a", "valid", "email">>, BadPasswordText, LockedText }

\* the provider's parsed token responses
ProviderBodies ==
    { [refresh_token |-> <<"rt1">>, access_token |-> <<"at1">>, expires_in |-> <<"3600">>,
       scope |-> SCOPES, token_type |-> <<"Bearer">>],
      [refresh_token |-> <<"rt2">>],
      [error |-> <<"invalid_grant">>, error_description |-> <<"AADSTS70000">>],
      [access_token |-> <<"at1">>] }

Emails == { None, << >>, <<"user@example.com">> }

Passwords == { None, << >>, <<"hunter2">> }

\* str(e) of a fault raised by the driver or by requests
FaultText == <<"driver fault">>

\* the result of a driver call that raised instead of returning
Raised == <<"raised">>

----------------------------------------------------------------------------
(* Tables of the source *)

email_selectors ==
    << "input[type=email]", "#i0116", "input[name=loginfmt]",
       "input[placeholder*=email i]", "input[placeholder*=Email i]" >>

next_selectors ==
    << "#idSIButton9", "input[type=submit]", "button[type=submit]",
       "button:has-text(Next)", "button:has-text(Avanti)" >>

password_selectors ==
    << "input[type=password]", "#i0118", "input[name=passwd]",
       "input[name=Password]", "input[placeholder*=password i]" >>

signin_selectors ==
    << "#idSIButton9", "input[type=submit]", "button[type=submit]",
       "button:has-text(Sign in)", "button:has-text(Accedi)" >>

password_error_selectors ==
    << "#field-8__validationMessage", ".fui-Field__validationMessage",
       "[id*=validationMessage]", "[class*=validationMessage]", "[class*=error]",
       ".alert-error", ".error-message" >>

password_error_phrases ==
    { <<"password", "is", "incorrect">>, <<"that", "password", "is", "incorrect">>,
      <<"incorrect", "password">>, <<"wrong", "password">>, <<"invalid", "password">> }

error_indicators ==
    << <<<<"account", "has", "been", "locked">>, "ACCOUNT_LOCKED">>,
       <<<<"account", "is", "locked">>, "ACCOUNT_LOCKED">>,
       <<<<"temporarily", "locked">>, "ACCOUNT_LOCKED">>,
       <<<<"incorrect", "username", "or", "password">>, "INVALID_CREDENTIALS">>,
       <<<<"sign-in", "name", "or", "password", "is", "incorrect">>, "INVALID_CREDENTIALS">>,
       <<<<"that", "password", "is", "incorrect">>, "INVALID_CREDENTIALS">>,
       <<<<"password", "is", "incorrect">>, "INVALID_CREDENTIALS">>,
       <<<<"we", "couldn't", "find", "an", "account">>, "ACCOUNT_NOT_FOUND">>,
       <<<<"account", "doesn't", "exist">>, "ACCOUNT_NOT_FOUND">>,
       <<<<"invalid", "username", "or", "password">>, "INVALID_CREDENTIALS">> >>

\* the loop over error_indicators: the error_type of the first row whose
\* indicator is in the text, "NONE" if the loop ends without a return
ScanIndicators(page_content_lower) ==
    LET Hit(k) == Contains(page_content_lower, error_indicators[k][1])
    IN IF \E k \in 1..Len(error_indicators) : Hit(k)
       THEN error_indicators[CHOOSE k \in 1..Len(error_indicators) :
                                Hit(k) /\ \A j \in 1..(k - 1) : ~Hit(j)][2]
       ELSE "NONE"

consent_keywords ==
    { <<"permissions", "requested">>, <<"consent">>, <<"accept">>, <<"allow">>,
      <<"wants", "to", "access">>, <<"autorizzazioni">>, <<"consenso">> }

stay_keywords ==
    { <<"stay", "signed", "in">>, <<"rimani", "connesso">>, <<"stay", "signed">> }

accept_selectors ==
    << "#idSIButton9", "button:has-text(Accept)", "button:has-text(Allow)",
       "button:has-text(Accetta)", "input[type=submit][value*=Accept]" >>

yes_selectors ==
    << "#idSIButton9", "button:has-text(Yes)", "button:has-text(Si)",
       "input[type=submit][value*=Yes]" >>

max_attempts == 3

\* timeout = 30 seconds; the clock of the model counts half seconds
timeout == 30

TicksPerSecond == 2

\* asyncio.sleep(0.5) and asyncio.sleep(1), in half seconds
PollSleep == 1

FaultSleep == 2

----------------------------------------------------------------------------
(* The request *)

NoResponse == [status |-> 0, body |-> [none |-> TRUE]]

\* an exception that leaves get_refresh_token: the framework answers, not the handler
UnhandledResponse == [status |-> 500, body |-> [unhandled |-> TRUE]]

ErrorResponse(status, kind, message) ==
    [status |-> status, body |-> [error |-> kind, message |-> message]]

Init ==
    /\ pc = "request"
    /\ browser = "none"
    /\ auth_code = None
    /\ error = None
    /\ response = NoResponse
    /\ posts = 0
    /\ token_data = [none |-> TRUE]
    /\ navs = 0
    /\ runs = 0
    /\ session = "none"
    /\ i = 0
    /\ qualified = {}
    /\ fills = {}
    /\ faulted = {}
    /\ filledBy = 0
    /\ clicks = 0
    /\ enters = 0
    /\ account_status = "unset"
    /\ current_url = None
    /\ page_content = None
    /\ final_content = None
    /\ status_path = "none"
    /\ status_fault = FALSE
    /\ attempt = 0
    /\ dismissed = << >>
    /\ passes = << >>
    /\ entered = << >>
    /\ swallowed = FALSE
    /\ elapsed = 0
    /\ code_url = None
    /\ code_path = "none"
    /\ final_url = None
    /\ poll_fault = FALSE

loopVars == <<i, qualified, fills, faulted, filledBy, clicks, enters>>

statusVars ==
    <<account_status, current_url, page_content, final_content, status_path,
      status_fault>>

promptVars == <<attempt, dismissed, passes>>

extractVars == <<elapsed, code_url, code_path, final_url, poll_fault>>

handlerVars == <<response, posts, token_data>>

\* the locals of a selector step, as they are when the step is entered
ResetLoop ==
    /\ i' = 1
    /\ qualified' = {}
    /\ fills' = {}
    /\ faulted' = {}
    /\ filledBy' = 0
    /\ clicks' = 0
    /\ enters' = 0

\* an exception raised inside the try block of automate_login: the except
\* clause records it and the finally clause runs next
Except(text) ==
    /\ error' = <<"Automation error: ">> \o text
    /\ pc' = "finally"

\* get_refresh_token up to the call of automate_login
get_refresh_token ==
    /\ pc = "request"
    /\ \E is_json \in BOOLEAN, email \in Emails, password \in Passwords :
         IF ~is_json
         THEN /\ response' = ErrorResponse(400, "INVALID_REQUEST",
                                           <<"Request must be in JSON format.">>)
              /\ pc' = "done"
              /\ UNCHANGED <<runs, session>>
         ELSE IF ~Truthy(email) \/ ~Truthy(password)
         THEN /\ response' = ErrorResponse(400, "MISSING_CREDENTIALS",
                                           <<"Email and password are required.">>)
              /\ pc' = "done"
              /\ UNCHANGED <<runs, session>>
         ELSE /\ pc' = "launch"
              /\ runs' = runs + 1
              /\ session' = "running"
              /\ UNCHANGED response
    /\ UNCHANGED <<browser, auth_code, error, posts, token_data, navs, loopVars,
                   statusVars, promptVars, entered, extractVars, swallowed>>

\* a fault before the try block: it leaves automate_login as an exception
Escape ==
    /\ pc' = "raised"
    /\ session' = "raised"

\* p.chromium.launch
launch ==
    /\ pc = "launch"
    /\ \/ /\ browser' = "open"
          /\ pc' = "new_context"
          /\ UNCHANGED session
       \/ /\ Escape
          /\ UNCHANGED browser
    /\ UNCHANGED <<auth_code, error, handlerVars, navs, runs, loopVars, statusVars,
                   promptVars, entered, extractVars, swallowed>>

\* browser.new_context
new_context ==
    /\ pc = "new_context"
    /\ \/ /\ pc' = "new_page"
          /\ UNCHANGED session
       \/ Escape
    /\ UNCHANGED <<browser, auth_code, error, handlerVars, navs, runs, loopVars,
                   statusVars, promptVars, entered, extractVars, swallowed>>

\* context.new_page
new_page ==
    /\ pc = "new_page"
    /\ \/ /\ pc' = "goto"
          /\ UNCHANGED session
       \/ Escape
    /\ UNCHANGED <<browser, auth_code, error, handlerVars, navs, runs, loopVars,
                   statusVars, promptVars, entered, extractVars, swallowed>>

\* goto with the navigation tried again after a fault
goto_retried ==
    /\ pc = "goto"
    /\ navs' = navs + 1
    /\ entered' = IF navs = 0 THEN Append(entered, "START") ELSE entered
    /\ \/ pc' = "email_wait"
       \/ UNCHANGED pc
    /\ UNCHANGED <<browser, auth_code, error, handlerVars, runs, session, loopVars,
                   statusVars, promptVars, extractVars, swallowed>>

\* page.goto(auth_url), wait_for_load_state, wait_for_timeout
goto ==
    /\ pc = "goto"
    /\ navs' = navs + 1
    /\ entered' = Append(entered, "START")
    /\ \/ /\ pc' = "email_wait"
          /\ UNCHANGED error
       \/ Except(FaultText)
    /\ UNCHANGED <<browser, auth_code, handlerVars, runs, session, loopVars, statusVars,
                   promptVars, extractVars, swallowed>>

----------------------------------------------------------------------------
(* _handle_email_input and _handle_password_input *)

\* the entry of a step of the state machine: wait_for_load_state and the
\* settle delay, outside any try block of the step
StepWait(here, state, next) ==
    /\ pc = here
    /\ entered' = Append(entered, state)
    /\ \/ /\ pc' = next
          /\ ResetLoop
          /\ UNCHANGED error
       \/ /\ Except(FaultText)
          /\ UNCHANGED loopVars
    /\ UNCHANGED <<browser, auth_code, handlerVars, navs, runs, session, statusVars,
                   promptVars, extractVars, swallowed>>

\* what one pass of a field loop can meet: wait_for_selector raises, the
\* query finds nothing, is_visible or is_enabled raises, one of them is
\* False, a fill raises, the settle wait raises, or the pass completes
FieldOutcomes ==
    { "wait_fault", "absent", "check_fault", "unqualified", "fill_fault",
      "settle_fault", "filled" }

\* the outcomes of a pass in which a driver call raised: the except clause
\* of the pass goes on with the next candidate
FieldFaults == { "wait_fault", "check_fault", "fill_fault", "settle_fault" }

\* FieldLoop without the `if is_visible and is_enabled` test: a candidate
\* that resolved is filled whatever the two checks returned
FieldLoopUnchecked(here, selectors, next, failure) ==
    /\ pc = here
    /\ \E outcome \in FieldOutcomes :
         LET passed == outcome \in {"fill_fault", "settle_fault", "filled"}
             acted == passed \/ outcome = "unqualified"
         IN /\ qualified' = IF passed THEN qualified \cup {i} ELSE qualified
            /\ fills' = IF acted THEN fills \cup {i} ELSE fills
            /\ faulted' = IF outcome \in {"fill_fault", "settle_fault"}
                          THEN faulted \cup {i} ELSE faulted
            /\ swallowed' = (swallowed \/ outcome \in FieldFaults)
            /\ IF outcome \in {"filled", "unqualified"}
               THEN /\ filledBy' = i
                    /\ i' = 1
                    /\ pc' = next
                    /\ UNCHANGED error
               ELSE IF i < Len(selectors)
               THEN /\ i' = i + 1
                    /\ UNCHANGED <<pc, error, filledBy>>
               ELSE /\ Except(failure)
                    /\ UNCHANGED <<i, filledBy>>
    /\ UNCHANGED <<browser, auth_code, handlerVars, navs, runs, session, clicks, enters,
                   statusVars, promptVars, entered, extractVars>>

\* FieldLoop without the `if not ..._filled: raise` after the loop: the step
\* goes on to its proceed control although no candidate was filled
FieldLoopLenient(here, selectors, next, failure) ==
    /\ pc = here
    /\ \E outcome \in FieldOutcomes :
         LET passed == outcome \in {"fill_fault", "settle_fault", "filled"}
         IN /\ qualified' = IF passed THEN qualified \cup {i} ELSE qualified
            /\ fills' = IF passed THEN fills \cup {i} ELSE fills
            /\ faulted' = IF outcome \in {"fill_fault", "settle_fault"}
                          THEN faulted \cup {i} ELSE faulted
            /\ swallowed' = (swallowed \/ outcome \in FieldFaults)
            /\ UNCHANGED error
            /\ IF outcome = "filled"
               THEN /\ filledBy' = i
                    /\ i' = 1
                    /\ pc' = next
               ELSE IF i < Len(selectors)
               THEN /\ i' = i + 1
                    /\ UNCHANGED <<pc, filledBy>>
               ELSE /\ i' = 1
                    /\ pc' = next
                    /\ UNCHANGED filledBy
    /\ UNCHANGED <<browser, auth_code, handlerVars, navs, runs, session, clicks, enters,
                   statusVars, promptVars, entered, extractVars>>

\* one pass of `for selector in email_selectors` / password_selectors, and
\* the `if not ..._filled: raise` that follows the loop
FieldLoop(here, selectors, next, failure) ==
    /\ pc = here
    /\ \E outcome \in FieldOutcomes :
         LET passed == outcome \in {"fill_fault", "settle_fault", "filled"}
         IN /\ qualified' = IF passed THEN qualified \cup {i} ELSE qualified
            /\ fills' = IF passed THEN fills \cup {i} ELSE fills
            /\ faulted' = IF outcome \in {"fill_fault", "settle_fault"}
                          THEN faulted \cup {i} ELSE faulted
            /\ swallowed' = (swallowed \/ outcome \in FieldFaults)
            /\ IF outcome = "filled"
               THEN /\ filledBy' = i
                    /\ i' = 1
                    /\ pc' = next
                    /\ UNCHANGED error
               ELSE IF i < Len(selectors)
               THEN /\ i' = i + 1
                    /\ UNCHANGED <<pc, error, filledBy>>
               ELSE /\ Except(failure)
                    /\ UNCHANGED <<i, filledBy>>
    /\ UNCHANGED <<browser, auth_code, handlerVars, navs, runs, session, clicks, enters,
                   statusVars, promptVars, entered, extractVars>>

\* what one pass of a proceed loop can meet: no click because nothing is
\* found or it is not visible or not enabled, no click because a call up to
\* page.click raised, a click whose settle wait raises, or a click that
\* completes
ProceedOutcomes == { "absent", "fault", "settle_fault", "clicked" }

\* the outcomes of a pass in which page.click returned
Clicked == { "settle_fault", "clicked" }

\* ProceedLoop without the `if not next_clicked:` test: the step goes on to
\* the keyboard press after a completed click as well
ProceedLoopThenEnter(here, selectors, next, fallback) ==
    /\ pc = here
    /\ \E outcome \in ProceedOutcomes :
         /\ clicks' = IF outcome \in Clicked THEN clicks + 1 ELSE clicks
         /\ swallowed' = (swallowed \/ outcome \in {"fault", "settle_fault"})
         /\ IF outcome # "clicked" /\ i < Len(selectors)
            THEN i' = i + 1 /\ UNCHANGED pc
            ELSE pc' = fallback /\ UNCHANGED i
    /\ UNCHANGED <<browser, auth_code, error, handlerVars, navs, runs, session, qualified,
                   fills, faulted, filledBy, enters, statusVars, promptVars, entered,
                   extractVars>>

\* one pass of `for selector in next_selectors` / signin_selectors
ProceedLoop(here, selectors, next, fallback) ==
    /\ pc = here
    /\ \E outcome \in ProceedOutcomes :
         /\ clicks' = IF outcome \in Clicked THEN clicks + 1 ELSE clicks
         /\ swallowed' = (swallowed \/ outcome \in {"fault", "settle_fault"})
         /\ IF outcome = "clicked"
            THEN pc' = next /\ UNCHANGED i
            ELSE IF i < Len(selectors)
            THEN i' = i + 1 /\ UNCHANGED pc
            ELSE pc' = fallback /\ UNCHANGED i
    /\ UNCHANGED <<browser, auth_code, error, handlerVars, navs, runs, session, qualified,
                   fills, faulted, filledBy, enters, statusVars, promptVars, entered,
                   extractVars>>

\* `if not next_clicked:` page.keyboard.press('Enter') and the settle wait,
\* under a bare except that raises the step's failure
PressEnter(here, next, failure) ==
    /\ pc = here
    /\ \/ /\ enters' = enters + 1
          /\ pc' = next
          /\ UNCHANGED <<error, swallowed>>
       \/ /\ enters' = enters + 1
          /\ swallowed' = TRUE
          /\ Except(failure)
       \/ /\ swallowed' = TRUE
          /\ UNCHANGED enters
          /\ Except(failure)
    /\ UNCHANGED <<browser, auth_code, handlerVars, navs, runs, session, i, qualified,
                   fills, faulted, filledBy, clicks, statusVars, promptVars, entered,
                   extractVars>>

_handle_email_input_wait == StepWait("email_wait", "EMAIL_ENTRY", "email_field")

_handle_email_input_fill ==
    FieldLoop("email_field", email_selectors, "email_next", <<"Unable to enter email">>)

_handle_email_input_next ==
    ProceedLoop("email_next", next_selectors, "password_wait", "email_enter")

_handle_email_input_enter ==
    PressEnter("email_enter", "password_wait", <<"Unable to proceed after email entry">>)

_handle_password_input_wait == StepWait("password_wait", "PASSWORD_ENTRY", "password_field")

_handle_password_input_fill ==
    FieldLoop("password_field", password_selectors, "password_signin",
              <<"Unable to enter password">>)

_handle_password_input_signin ==
    ProceedLoop("password_signin", signin_selectors, "status_wait", "password_enter")

_handle_password_input_enter ==
    PressEnter("password_enter", "status_wait", <<"Unable to perform login">>)

----------------------------------------------------------------------------
(* _check_account_status *)

\* `return status` of _check_account_status, and the return statement
\* that was taken
Return(status, path) ==
    /\ account_status' = status
    /\ status_path' = path
    /\ pc' = "status_decide"

\* the `except Exception: return "OK"` that closes the classifier
ReturnExcept ==
    /\ Return("OK", "except")
    /\ status_fault' = TRUE
    /\ swallowed' = TRUE

\* the settle delay before the try block of the classifier
_check_account_status_wait ==
    /\ pc = "status_wait"
    /\ entered' = Append(entered, "STATUS_CHECK")
    /\ \/ /\ pc' = "status_validation"
          /\ ResetLoop
          /\ UNCHANGED error
       \/ /\ Except(FaultText)
          /\ UNCHANGED loopVars
    /\ UNCHANGED <<browser, auth_code, handlerVars, navs, runs, session, statusVars,
                   promptVars, extractVars, swallowed>>

\* one pass of `for selector in password_error_selectors`: error_text is None
\* when the query finds nothing, Raised when a call of the pass raised (the
\* inner except clause goes on with the next selector)
_check_account_status_validation ==
    /\ pc = "status_validation"
    /\ \E error_text \in ValidationTexts \cup {None, Raised} :
         IF /\ error_text # Raised
            /\ Truthy(error_text)
            /\ Truthy(Strip(error_text))
            /\ ContainsAny(Lower(error_text), password_error_phrases)
         THEN /\ Return("INVALID_CREDENTIALS", "validation")
              /\ UNCHANGED <<i, status_fault, swallowed>>
         ELSE /\ status_fault' = (status_fault \/ error_text = Raised)
              /\ swallowed' = (swallowed \/ error_text = Raised)
              /\ IF i < Len(password_error_selectors)
                 THEN /\ i' = i + 1
                      /\ UNCHANGED <<pc, account_status, status_path>>
                 ELSE /\ pc' = "status_body"
                      /\ UNCHANGED <<i, account_status, status_path>>
    /\ UNCHANGED <<browser, auth_code, error, handlerVars, navs, runs, session, qualified,
                   fills, faulted, filledBy, clicks, enters, current_url, page_content,
                   final_content, promptVars, entered, extractVars>>

\* _check_account_status_body with the table scanned to its end: the last
\* matching row decides
_check_account_status_body_last ==
    /\ pc = "status_body"
    /\ \E text \in PageTexts \cup {Raised} :
         LET Hit(k) == Contains(Lower(text), error_indicators[k][1])
             Hits == { k \in 1..Len(error_indicators) : Hit(k) }
         IN IF text = Raised
            THEN /\ ReturnExcept
                 /\ UNCHANGED page_content
            ELSE /\ page_content' = text
                 /\ IF Truthy(text) /\ Hits # {}
                    THEN /\ Return(error_indicators[CHOOSE k \in Hits :
                                                      \A j \in Hits : j <= k][2],
                                   "indicator")
                         /\ UNCHANGED <<status_fault, swallowed>>
                    ELSE /\ pc' = "status_url"
                         /\ UNCHANGED <<account_status, status_path, status_fault, swallowed>>
    /\ UNCHANGED <<browser, auth_code, error, handlerVars, navs, runs, session, loopVars,
                   current_url, final_content, promptVars, entered, extractVars>>

\* page_content = page.text_content('body') and the scan of error_indicators
_check_account_status_body ==
    /\ pc = "status_body"
    /\ \E text \in PageTexts \cup {Raised} :
         IF text = Raised
         THEN /\ ReturnExcept
              /\ UNCHANGED page_content
         ELSE /\ page_content' = text
              /\ IF Truthy(text) /\ ScanIndicators(Lower(text)) # "NONE"
                 THEN /\ Return(ScanIndicators(Lower(text)), "indicator")
                      /\ UNCHANGED <<status_fault, swallowed>>
                 ELSE /\ pc' = "status_url"
                      /\ UNCHANGED <<account_status, status_path, status_fault, swallowed>>
    /\ UNCHANGED <<browser, auth_code, error, handlerVars, navs, runs, session, loopVars,
                   current_url, final_content, promptVars, entered, extractVars>>

\* `'login.live.com' in url and 'post.srf' in url`
OnLoginPost(url) == Contains(url, <<"login.live.com">>) /\ Contains(url, <<"post.srf">>)

\* current_url = page.url and the checks made on it
_check_account_status_url ==
    /\ pc = "status_url"
    /\ \E url \in PageUrls \cup {Raised} :
         IF url = Raised
         THEN /\ ReturnExcept
              /\ UNCHANGED current_url
         ELSE /\ current_url' = url
              /\ IF /\ Contains(Lower(url), <<"error">>)
                    /\ Contains(Lower(url), <<"invalid_grant">>)
                 THEN /\ Return("INVALID_CREDENTIALS", "url")
                      /\ UNCHANGED <<status_fault, swallowed>>
                 ELSE IF OnLoginPost(url)
                 THEN /\ pc' = "status_stuck"
                      /\ UNCHANGED <<account_status, status_path, status_fault, swallowed>>
                 ELSE /\ Return("OK", "default")
                      /\ UNCHANGED <<status_fault, swallowed>>
    /\ UNCHANGED <<browser, auth_code, error, handlerVars, navs, runs, session, loopVars,
                   page_content, final_content, promptVars, entered, extractVars>>

\* the extra settle wait on the login-post page, final_url = page.url and
\* final_content = page.text_content('body')
_check_account_status_stuck ==
    /\ pc = "status_stuck"
    /\ \E waited \in BOOLEAN, url \in PageUrls \cup {Raised},
          text \in PageTexts \cup {Raised} :
         IF ~waited \/ url = Raised
         THEN /\ ReturnExcept
              /\ UNCHANGED final_content
         ELSE IF OnLoginPost(url)
         THEN IF text = Raised
              THEN /\ ReturnExcept
                   /\ UNCHANGED final_content
              ELSE /\ final_content' = text
                   /\ UNCHANGED <<status_fault, swallowed>>
                   /\ IF /\ Truthy(text)
                         /\ Contains(Lower(text), <<"password", "is", "incorrect">>)
                      THEN Return("INVALID_CREDENTIALS", "stuck")
                      ELSE Return("INVALID_CREDENTIALS", "stuck")
         ELSE /\ Return("OK", "default")
              /\ UNCHANGED <<final_content, status_fault, swallowed>>
    /\ UNCHANGED <<browser, auth_code, error, handlerVars, navs, runs, session, loopVars,
                   current_url, page_content, promptVars, entered, extractVars>>

\* `if account_status != "OK": self.error = ...; return`; the locals of the
\* classifier are gone
automate_login_status ==
    /\ pc = "status_decide"
    /\ IF account_status # "OK"
       THEN /\ error' = <<"Account error: ", account_status>>
            /\ pc' = "finally"
       ELSE /\ pc' = "prompt_wait"
            /\ UNCHANGED error
    /\ i' = 0
    /\ current_url' = None
    /\ page_content' = None
    /\ final_content' = None
    /\ status_path' = "none"
    /\ status_fault' = FALSE
    /\ UNCHANGED <<browser, auth_code, handlerVars, navs, runs, session, qualified, fills,
                   faulted, filledBy, clicks, enters, account_status, promptVars, entered,
                   extractVars, swallowed>>

----------------------------------------------------------------------------
(* _handle_additional_prompts *)

\* wait_for_load_state and the settle delay before the loop
_handle_additional_prompts_wait ==
    /\ pc = "prompt_wait"
    /\ entered' = Append(entered, "PROMPT_RESOLUTION")
    /\ \/ /\ pc' = "prompt_loop"
          /\ attempt' = 0
          /\ dismissed' = << >>
          /\ passes' = << >>
          /\ UNCHANGED error
       \/ /\ Except(FaultText)
          /\ UNCHANGED promptVars
    /\ UNCHANGED <<browser, auth_code, handlerVars, navs, runs, session, loopVars,
                   statusVars, extractVars, swallowed>>

\* the browser is on the redirect target: the URL is redirect_uri, with or
\* without a query or fragment
AtRedirect(url) ==
    /\ Len(url) >= Len(redirect_uri)
    /\ SubSeq(url, 1, Len(redirect_uri)) = redirect_uri

\* the prompt a page text shows, by the keywords found in it
Shown(page_content_lower) ==
    LET consent == ContainsAny(page_content_lower, consent_keywords)
        stay == ContainsAny(page_content_lower, stay_keywords)
    IN IF consent /\ stay THEN "both"
       ELSE IF consent THEN "consent"
       ELSE IF stay THEN "stay"
       ELSE "none"

\* `while attempt < max_attempts`: the reads at the head of a pass and the
\* choice of the branch.  A read that raises, or text_content returning
\* None (None.lower() raises), reaches the except clause, which breaks
_handle_additional_prompts_loop ==
    /\ pc = "prompt_loop"
    /\ IF attempt >= max_attempts
       THEN pc' = "extract" /\ UNCHANGED <<i, passes, swallowed>>
       ELSE \E text \in PageTexts \cup {Raised}, url \in PageUrls \cup {Raised} :
              IF text = Raised \/ text = None \/ url = Raised
              THEN /\ pc' = "extract"
                   /\ swallowed' = (swallowed \/ text # None)
                   /\ UNCHANGED <<i, passes>>
              ELSE IF Contains(url, <<"/callback">>)
              THEN /\ pc' = "extract"
                   /\ UNCHANGED swallowed
                   /\ passes' = Append(passes, <<Shown(Lower(text)),
                                                 IF AtRedirect(url) THEN "callback"
                                                 ELSE "early",
                                                 {}>>)
                   /\ UNCHANGED i
              ELSE IF ContainsAny(Lower(text), consent_keywords)
              THEN /\ pc' = "prompt_consent"
                   /\ UNCHANGED swallowed
                   /\ passes' = Append(passes, <<Shown(Lower(text)), "open", {"consent"}>>)
                   /\ i' = 1
              ELSE IF ContainsAny(Lower(text), stay_keywords)
              THEN /\ pc' = "prompt_stay"
                   /\ UNCHANGED swallowed
                   /\ passes' = Append(passes, <<Shown(Lower(text)), "open", {"stay"}>>)
                   /\ i' = 1
              ELSE /\ pc' = "extract"
                   /\ UNCHANGED swallowed
                   /\ passes' = Append(passes, <<"none", "stop", {}>>)
                   /\ UNCHANGED i
    /\ UNCHANGED <<browser, auth_code, error, handlerVars, navs, runs, session, qualified,
                   fills, faulted, filledBy, clicks, enters, statusVars, attempt,
                   dismissed, entered, extractVars>>

\* the pass of the prompt loop in progress ends with this result
EndPass(result) == passes' = [passes EXCEPT ![Len(passes)] = <<@[1], result, @[3]>>]

\* ConfirmLoop without the `attempt += 1` at the foot of the while body: a
\* pass in which nothing was accepted is not counted
ConfirmLoopUncounted(here, selectors, kind) ==
    /\ pc = here
    /\ \E outcome \in ProceedOutcomes :
         /\ dismissed' = IF outcome \in Clicked THEN Append(dismissed, kind) ELSE dismissed
         /\ swallowed' = (swallowed \/ outcome \in {"fault", "settle_fault"})
         /\ IF outcome = "clicked"
            THEN /\ attempt' = attempt + 1
                 /\ EndPass("clicked")
                 /\ pc' = "prompt_loop"
                 /\ UNCHANGED i
            ELSE IF i < Len(selectors)
            THEN /\ i' = i + 1
                 /\ UNCHANGED <<pc, attempt, passes>>
            ELSE /\ EndPass("missed")
                 /\ pc' = "prompt_loop"
                 /\ UNCHANGED <<i, attempt>>
    /\ UNCHANGED <<browser, auth_code, error, handlerVars, navs, runs, session, qualified,
                   fills, faulted, filledBy, clicks, enters, statusVars, entered,
                   extractVars>>

\* one pass of `for selector in accept_selectors` / yes_selectors; when the
\* loop ends, attempt += 1 (before `continue` if accepted, else at the foot
\* of the while body)
ConfirmLoop(here, selectors, kind) ==
    /\ pc = here
    /\ \E outcome \in ProceedOutcomes :
         /\ dismissed' = IF outcome \in Clicked THEN Append(dismissed, kind) ELSE dismissed
         /\ swallowed' = (swallowed \/ outcome \in {"fault", "settle_fault"})
         /\ IF outcome = "clicked"
            THEN /\ attempt' = attempt + 1
                 /\ EndPass("clicked")
                 /\ pc' = "prompt_loop"
                 /\ UNCHANGED i
            ELSE IF i < Len(selectors)
            THEN /\ i' = i + 1
                 /\ UNCHANGED <<pc, attempt, passes>>
            ELSE /\ attempt' = attempt + 1
                 /\ EndPass("missed")
                 /\ pc' = "prompt_loop"
                 /\ UNCHANGED i
    /\ UNCHANGED <<browser, auth_code, error, handlerVars, navs, runs, session, qualified,
                   fills, faulted, filledBy, clicks, enters, statusVars, entered,
                   extractVars>>

_handle_additional_prompts_consent == ConfirmLoop("prompt_consent", accept_selectors, "consent")

_handle_additional_prompts_stay == ConfirmLoop("prompt_stay", yes_selectors, "stay")

----------------------------------------------------------------------------
(* _extract_auth_code *)

\* timeout = 30; start_time = time.time().  _handle_additional_prompts has
\* returned: the record of its passes is dropped
_extract_auth_code_start ==
    /\ pc = "extract"
    /\ entered' = Append(entered, "CODE_EXTRACTION")
    /\ elapsed' = 0
    /\ i' = 0
    /\ passes' = << >>
    /\ pc' = "extract_poll"
    /\ UNCHANGED <<browser, auth_code, error, handlerVars, navs, runs, session, qualified,
                   fills, faulted, filledBy, clicks, enters, statusVars, attempt,
                   dismissed, code_url, code_path, final_url, poll_fault, swallowed>>

\* _extract_auth_code_poll without the try block of the loop body: a fault
\* of a pass reaches the except clause of automate_login
_extract_auth_code_poll_unguarded ==
    /\ pc = "extract_poll"
    /\ IF Truthy(auth_code) \/ elapsed >= timeout * TicksPerSecond
       THEN /\ pc' = "extract_final"
            /\ UNCHANGED <<auth_code, error, elapsed, code_url, code_path, swallowed,
                           poll_fault>>
       ELSE \E url \in PageUrls \cup {Raised} :
              IF url = Raised
              THEN /\ Except(FaultText)
                   /\ poll_fault' = TRUE
                   /\ UNCHANGED <<auth_code, elapsed, code_url, code_path, swallowed>>
              ELSE LET code == ParseQsFirst(UrlQuery(url), <<"code">>)
                   IN IF /\ Contains(url, <<"/callback">>)
                         /\ Contains(url, <<"code", "=">>)
                         /\ Truthy(code)
                      THEN /\ auth_code' = code
                           /\ code_url' = url
                           /\ code_path' = "poll"
                           /\ pc' = "extract_final"
                           /\ UNCHANGED <<error, elapsed, swallowed, poll_fault>>
                      ELSE /\ elapsed' = elapsed + PollSleep
                           /\ UNCHANGED <<pc, auth_code, error, code_url, code_path,
                                          swallowed, poll_fault>>
    /\ UNCHANGED <<browser, handlerVars, navs, runs, session, loopVars, statusVars,
                   promptVars, entered, final_url>>

\* `while not self.auth_code and (time.time() - start_time) < timeout`: one
\* evaluation of the condition and, if it holds, one pass of the body.  The
\* pass raises (url is Raised) when page.url or the parsing of the URL
\* raises: the except clause of the body sleeps and the loop goes on
_extract_auth_code_poll ==
    /\ pc = "extract_poll"
    /\ IF Truthy(auth_code) \/ elapsed >= timeout * TicksPerSecond
       THEN /\ pc' = "extract_final"
            /\ UNCHANGED <<auth_code, elapsed, code_url, code_path, swallowed, poll_fault>>
       ELSE \E url \in PageUrls \cup {Raised} :
              IF url = Raised
              THEN /\ elapsed' = elapsed + FaultSleep
                   /\ swallowed' = TRUE
                   /\ poll_fault' = TRUE
                   /\ UNCHANGED <<pc, auth_code, code_url, code_path>>
              ELSE LET code == ParseQsFirst(UrlQuery(url), <<"code">>)
                   IN IF /\ Contains(url, <<"/callback">>)
                         /\ Contains(url, <<"code", "=">>)
                         /\ Truthy(code)
                      THEN /\ auth_code' = code
                           /\ code_url' = url
                           /\ code_path' = "poll"
                           /\ pc' = "extract_final"
                           /\ UNCHANGED <<elapsed, swallowed, poll_fault>>
                      ELSE /\ elapsed' = elapsed + PollSleep
                           /\ UNCHANGED <<pc, auth_code, code_url, code_path, swallowed,
                                          poll_fault>>
    /\ UNCHANGED <<browser, error, handlerVars, navs, runs, session, loopVars, statusVars,
                   promptVars, entered, final_url>>

\* _extract_auth_code_final without its `if not self.auth_code` guard: the
\* last attempt runs whether or not the poll loop recorded a code
_extract_auth_code_final_unguarded ==
    /\ pc = "extract_final"
    /\ pc' = "extract_result"
    /\ \E url \in PageUrls \cup {Raised} :
         IF url = Raised
         THEN /\ swallowed' = TRUE
              /\ UNCHANGED <<auth_code, code_url, code_path, final_url>>
         ELSE /\ final_url' = url
              /\ UNCHANGED swallowed
              /\ IF Contains(url, <<"code", "=">>) /\ RegexCode(url) # None
                 THEN /\ auth_code' = RegexCode(url)
                      /\ code_url' = url
                      /\ code_path' = "fallback"
                 ELSE UNCHANGED <<auth_code, code_url, code_path>>
    /\ UNCHANGED <<browser, error, handlerVars, navs, runs, session, loopVars, statusVars,
                   promptVars, entered, elapsed, poll_fault>>

\* `if not self.auth_code:` the last attempt on final_url = page.url
_extract_auth_code_final ==
    /\ pc = "extract_final"
    /\ pc' = "extract_result"
    /\ IF Truthy(auth_code)
       THEN UNCHANGED <<auth_code, code_url, code_path, final_url, swallowed>>
       ELSE \E url \in PageUrls \cup {Raised} :
              IF url = Raised
              THEN /\ swallowed' = TRUE
                   /\ UNCHANGED <<auth_code, code_url, code_path, final_url>>
              ELSE /\ final_url' = url
                   /\ UNCHANGED swallowed
                   /\ IF Contains(url, <<"code", "=">>) /\ RegexCode(url) # None
                      THEN /\ auth_code' = RegexCode(url)
                           /\ code_url' = url
                           /\ code_path' = "fallback"
                      ELSE UNCHANGED <<auth_code, code_url, code_path>>
    /\ UNCHANGED <<browser, error, handlerVars, navs, runs, session, loopVars, statusVars,
                   promptVars, entered, elapsed, poll_fault>>

\* `if not self.auth_code: self.error = "Unable to extract authorization code"`
\* and the return: the clock of the poll loop is read no more
_extract_auth_code_result ==
    /\ pc = "extract_result"
    /\ pc' = "finally"
    /\ error' = IF Truthy(auth_code) THEN error
                ELSE <<"Unable to extract authorization code">>
    /\ elapsed' = 0
    /\ UNCHANGED <<browser, auth_code, handlerVars, navs, runs, session, loopVars,
                   statusVars, promptVars, entered, code_url, code_path, final_url, poll_fault,
                   swallowed>>

----------------------------------------------------------------------------
(* The end of automate_login and the rest of get_refresh_token *)

\* automate_login_finally with the fault of close swallowed: the call
\* returns although the browser may still be open
automate_login_finally_swallowed ==
    /\ pc = "finally"
    /\ browser' \in {"open", "closed"}
    /\ session' = "returned"
    /\ pc' = "respond"
    /\ UNCHANGED <<auth_code, error, handlerVars, navs, runs, loopVars, statusVars,
                   promptVars, entered, extractVars, swallowed>>

\* `finally: await browser.close()`.  A close that raises leaves
\* automate_login as an exception, the browser closed or not
automate_login_finally ==
    /\ pc = "finally"
    /\ \/ /\ browser' = "closed"
          /\ session' = "returned"
          /\ pc' = "respond"
       \/ /\ browser' \in {"open", "closed"}
          /\ Escape
    /\ UNCHANGED <<auth_code, error, handlerVars, navs, runs, loopVars, statusVars,
                   promptVars, entered, extractVars, swallowed>>

\* an exception of automate_login propagates through asyncio.run and out
\* of the handler
get_refresh_token_raised ==
    /\ pc = "raised"
    /\ response' = UnhandledResponse
    /\ pc' = "done"
    /\ UNCHANGED <<browser, auth_code, error, posts, token_data, navs, runs, session,
                   loopVars, statusVars, promptVars, entered, extractVars, swallowed>>

\* `if automator.error: return jsonify(AUTOMATION_FAILED), 500`, else the
\* call of exchange_code_for_token
get_refresh_token_error ==
    /\ pc = "respond"
    /\ IF Truthy(error)
       THEN /\ response' = ErrorResponse(500, "AUTOMATION_FAILED", error)
            /\ pc' = "done"
       ELSE /\ pc' = "exchange"
            /\ UNCHANGED response
    /\ UNCHANGED <<browser, auth_code, error, posts, token_data, navs, runs, session,
                   loopVars, statusVars, promptVars, entered, extractVars, swallowed>>

\* `if 'error' in result: return jsonify(result), 500 else: ..., 200`
Reply(result) ==
    [status |-> IF "error" \in DOMAIN result THEN 500 ELSE 200, body |-> result]

\* exchange_code_for_token up to requests.post
exchange_code_for_token ==
    /\ pc = "exchange"
    /\ IF Truthy(error)
       THEN /\ response' = Reply([error |-> "AUTOMATION_FAILED", message |-> error])
            /\ pc' = "done"
            /\ UNCHANGED posts
       ELSE IF ~Truthy(auth_code)
       THEN /\ response' = Reply([error |-> "AUTH_CODE_MISSING",
                                  message |-> <<"Unable to obtain authorization code.">>])
            /\ pc' = "done"
            /\ UNCHANGED posts
       ELSE /\ posts' = posts + 1
            /\ pc' = "exchange_post"
            /\ UNCHANGED response
    /\ UNCHANGED <<browser, auth_code, error, token_data, navs, runs, session, loopVars,
                   statusVars, promptVars, entered, extractVars, swallowed>>

\* the success record built from token_data
TokenRecord(body) ==
    LET Get(k) == IF k \in DOMAIN body THEN body[k] ELSE None
    IN [refresh_token |-> Get("refresh_token"),
        access_token |-> Get("access_token"),
        expires_in |-> Get("expires_in"),
        scope |-> Get("scope"),
        token_type |-> IF "token_type" \in DOMAIN body
                       THEN body["token_type"] ELSE <<"Bearer">>,
        obtained_at |-> <<"now">>]

\* exchange_code_for_token_response with a retry: a failed request goes
\* back to the POST instead of being answered REQUEST_FAILED
exchange_code_for_token_response_retry ==
    /\ pc = "exchange_post"
    /\ \/ \E body \in ProviderBodies :
            /\ token_data' = body
            /\ pc' = "done"
            /\ response' = Reply(IF "refresh_token" \in DOMAIN body
                                 THEN TokenRecord(body)
                                 ELSE [error |-> "TOKEN_EXCHANGE_FAILED",
                                       message |-> body])
       \/ /\ pc' = "exchange"
          /\ UNCHANGED <<response, token_data>>
    /\ UNCHANGED <<browser, auth_code, error, posts, navs, runs, session, loopVars,
                   statusVars, promptVars, entered, extractVars, swallowed>>

\* exchange_code_for_token_response with the provider's body replaced by a
\* fixed object in the TOKEN_EXCHANGE_FAILED result
exchange_code_for_token_response_summarised ==
    /\ pc = "exchange_post"
    /\ pc' = "done"
    /\ \/ \E body \in ProviderBodies :
            /\ token_data' = body
            /\ response' = Reply(IF "refresh_token" \in DOMAIN body
                                 THEN TokenRecord(body)
                                 ELSE [error |-> "TOKEN_EXCHANGE_FAILED",
                                       message |-> [error |-> <<"token exchange failed">>]])
       \/ /\ response' = Reply([error |-> "REQUEST_FAILED", message |-> FaultText])
          /\ UNCHANGED token_data
    /\ UNCHANGED <<browser, auth_code, error, posts, navs, runs, session, loopVars,
                   statusVars, promptVars, entered, extractVars, swallowed>>

\* the outcome of requests.post and response.json(), and the reply.  A
\* request that raises, a body that does not parse and a parsed body that is
\* not an object (on which `in` or .get raises) all reach the except clause
exchange_code_for_token_response ==
    /\ pc = "exchange_post"
    /\ pc' = "done"
    /\ \/ \E body \in ProviderBodies :
            /\ token_data' = body
            /\ response' = Reply(IF "refresh_token" \in DOMAIN body
                                 THEN TokenRecord(body)
                                 ELSE [error |-> "TOKEN_EXCHANGE_FAILED",
                                       message |-> body])
       \/ /\ response' = Reply([error |-> "REQUEST_FAILED", message |-> FaultText])
          /\ UNCHANGED token_data
    /\ UNCHANGED <<browser, auth_code, error, posts, navs, runs, session, loopVars,
                   statusVars, promptVars, entered, extractVars, swallowed>>

----------------------------------------------------------------------------

Next ==
    \/ get_refresh_token
    \/ launch
    \/ new_context
    \/ new_page
    \/ goto
    \/ _handle_email_input_wait
    \/ _handle_email_input_fill
    \/ _handle_email_input_next
    \/ _handle_email_input_enter
    \/ _handle_password_input_wait
    \/ _handle_password_input_fill
    \/ _handle_password_input_signin
    \/ _handle_password_input_enter
    \/ _check_account_status_wait
    \/ _check_account_status_validation
    \/ _check_account_status_body
    \/ _check_account_status_url
    \/ _check_account_status_stuck
    \/ automate_login_status
    \/ _handle_additional_prompts_wait
    \/ _handle_additional_prompts_loop
    \/ _handle_additional_prompts_consent
    \/ _handle_additional_prompts_stay
    \/ _extract_auth_code_start
    \/ _extract_auth_code_poll
    \/ _extract_auth_code_final
    \/ _extract_auth_code_result
    \/ automate_login_finally
    \/ get_refresh_token_raised
    \/ get_refresh_token_error
    \/ exchange_code_for_token
    \/ exchange_code_for_token_response

Spec == Init /\ [][Next]_vars

\* every step is a step of the one request thread, which keeps running
FairSpec == Spec /\ WF_vars(Next)

----------------------------------------------------------------------------
(* Properties *)

Range(seq) == { seq[k] : k \in 1..Len(seq) }

\* the call of automate_login is over: it returned or it raised
SessionEnded == session \in {"returned", "raised"}

\* the error kind of a reply, "NONE" if the reply is not an error object
Kind(r) == IF "error" \in DOMAIN r.body THEN r.body.error ELSE "NONE"

\* C1: when the session has ended, exactly one of {auth_code is non-empty,
\* error is set} holds, also when launch, new_context or new_page faults.
C1_ExactlyOneOutcome ==
    SessionEnded => (Truthy(auth_code) /\ ~Truthy(error))
                    \/ (~Truthy(auth_code) /\ Truthy(error))

C3_CodeFromCallbackUrl == Truthy(auth_code) => Contains(code_url, <<"/callback">>)

\* the classifier returned an outcome other than OK
StatusNotOk == account_status \notin {"unset", "OK"}

\* C4: if the classifier returns an outcome other than OK, the session ends
\* with that outcome as the error, the prompt handler and the code extractor
\* never run, the request is answered AUTOMATION_FAILED and no POST is issued.
C4_NotOkFailsRequest ==
    StatusNotOk =>
        /\ "PROMPT_RESOLUTION" \notin Range(entered)
        /\ "CODE_EXTRACTION" \notin Range(entered)
        /\ posts = 0
        /\ (SessionEnded => error = <<"Account error: ", account_status>>)
        /\ (pc = "done" => response = ErrorResponse(500, "AUTOMATION_FAILED", error))

\* the poll loop ran to its timeout without a code and the final URL read
\* after it holds no 'code='
TimedOutWithoutCode ==
    /\ "CODE_EXTRACTION" \in Range(entered)
    /\ code_path = "none"
    /\ final_url # None
    /\ ~Contains(final_url, <<"code", "=">>)

\* C5: if the poll loop times out without a code and the final URL holds no
\* code=, the request (automate_login having returned) is answered with the
\* error kind AUTH_CODE_MISSING.
C5_TimeoutIsAuthCodeMissing ==
    (pc = "done" /\ session = "returned" /\ TimedOutWithoutCode)
        => Kind(response) = "AUTH_CODE_MISSING"

\* C6: a token-endpoint POST is issued only with error unset and auth_code
\* non-empty, and at most one POST is issued per session.
C6_PostOnlyWithCodeOnce ==
    /\ posts <= 1
    /\ posts > 0 => ~Truthy(error) /\ Truthy(auth_code)

\* the POST failed and the request was answered without a second POST
C6_Witness == pc = "done" /\ posts = 1 /\ Kind(response) = "REQUEST_FAILED"

\* C7: the browser is closed before the token exchange: the exchange is
\* never in progress while the session's browser is open.
C7_CloseBeforeExchange ==
    (pc \in {"exchange", "exchange_post"} \/ posts > 0) => browser = "closed"

\* the POST is in flight, the browser closed
C7_Witness == pc = "exchange_post" /\ browser = "closed" /\ posts = 1

\* C8: every session terminates in SUCCESS (auth_code set) or FAILED (error
\* set), whatever the page does and whichever driver call faults.
C8_EndsInSuccessOrFailed ==
    (pc = "done" /\ runs > 0) => Truthy(auth_code) \/ Truthy(error)

\* every request is answered: no loop of the model runs forever
Terminates == <>(pc = "done")

\* both fields resolved, the classifier found nothing, no prompt showed and
\* the poll loop saw the redirect URI with a code
HappyPath ==
    /\ account_status = "OK"
    /\ "CODE_EXTRACTION" \in Range(entered)
    /\ attempt = 0
    /\ dismissed = << >>
    /\ code_path = "poll"

\* C9: on the happy path the session ends with auth_code and no error, the
\* token exchange runs exactly once, and a provider response with
\* refresh_token gives a success record with refresh_token.
C9_HappyPathExchanges ==
    HappyPath =>
        /\ (SessionEnded => Truthy(auth_code) /\ ~Truthy(error))
        /\ (pc = "done" =>
              /\ posts = 1
              /\ ("refresh_token" \in DOMAIN token_data =>
                    /\ response.status = 200
                    /\ response.body.refresh_token = token_data.refresh_token))

\* the field loop of the step in progress is over and a fill completed
FieldFilled == filledBy # 0

\* C10 as stated: the candidate filled is the first one in list order that
\* was visible and enabled, none failing the checks is filled, and the step
\* fails if none qualifies.
C10_FilledIsFirstQualified ==
    /\ fills \subseteq qualified
    /\ FieldFilled => filledBy \in qualified /\ \A j \in qualified : filledBy <= j
    /\ pc \in {"email_next", "email_enter", "password_signin", "password_enter"}
          => FieldFilled

\* C10 amended: page.fill is called only on candidates observed visible and
\* enabled; the candidate whose fill completes is the first such candidate
\* whose fill and settle wait did not raise; the step goes on only after a
\* completed fill and fails otherwise.
C10_FilledIsFirstQualifiedNotFaulting ==
    /\ fills \subseteq qualified
    /\ faulted \subseteq qualified
    /\ FieldFilled =>
          /\ filledBy \in qualified \ faulted
          /\ \A j \in qualified : j < filledBy => j \in faulted
          /\ \A j \in fills : j <= filledBy
    /\ pc \in {"email_next", "email_enter", "password_signin", "password_enter"}
          => FieldFilled
    /\ error \in { <<"Automation error: ", "Unable to enter email">>,
                   <<"Automation error: ", "Unable to enter password">> }
          => ~FieldFilled /\ qualified = faulted

\* the second candidate was filled after the fill of the first, visible and
\* enabled, raised
C10_Witness == pc = "email_next" /\ filledBy = 2 /\ faulted = {1} /\ qualified = {1, 2}

\* the outcomes _check_account_status can return
AccountOutcomes == {"OK", "INVALID_CREDENTIALS", "ACCOUNT_LOCKED", "ACCOUNT_NOT_FOUND"}

\* row k of the phrase table matches the text the classifier scanned
RowMatches(k) == Contains(Lower(page_content), error_indicators[k][1])

\* C11: the outcome of the page-text scan is fixed by the text scanned: it
\* is the outcome of the earliest row of the phrase table found in the text,
\* the scan is passed over only when no row is found, and every outcome of
\* the classifier is OK, INVALID_CREDENTIALS, ACCOUNT_LOCKED or
\* ACCOUNT_NOT_FOUND.
C11_FirstMatchingRowWins ==
    /\ account_status # "unset" => account_status \in AccountOutcomes
    /\ (pc = "status_decide" /\ status_path = "indicator") =>
          \E k \in 1..Len(error_indicators) :
             /\ RowMatches(k)
             /\ \A j \in 1..(k - 1) : ~RowMatches(j)
             /\ account_status = error_indicators[k][2]
    /\ (pc \in {"status_url", "status_stuck"}
        \/ (pc = "status_decide" /\ status_path \in {"url", "stuck", "default"})) =>
          \A k \in 1..Len(error_indicators) : ~Truthy(page_content) \/ ~RowMatches(k)

\* a text holding an incorrect-password phrase before a locked phrase was
\* scanned and gave the outcome of the locked row, which is earlier in the
\* table
C11_Witness ==
    /\ pc = "status_decide"
    /\ page_content = LockedBadPasswordText
    /\ account_status = "ACCOUNT_LOCKED"

\* the POST was answered and the reply to the request is built from it
Exchanged == pc = "done" /\ posts = 1

\* a step of exchange_code_for_token leaves auth_code and error as they are
ExchangeKeepsSession ==
    pc \in {"exchange", "exchange_post"} => auth_code' = auth_code /\ error' = error

\* C12: a parsed body with a refresh_token field gives the success record
\* (HTTP 200); a parsed body without one gives TOKEN_EXCHANGE_FAILED whose
\* message is the parsed body itself; a request that faults gives
\* REQUEST_FAILED with the fault text; and no step of the exchange changes
\* auth_code or error.
C12_ExchangeMapsResponse ==
    /\ [](Exchanged =>
            /\ "refresh_token" \in DOMAIN token_data =>
                  /\ response.status = 200
                  /\ DOMAIN response.body = {"refresh_token", "access_token", "expires_in",
                                             "scope", "token_type", "obtained_at"}
                  /\ response.body.refresh_token = token_data.refresh_token
                  /\ \A k \in {"access_token", "expires_in", "scope"} :
                        response.body[k] = IF k \in DOMAIN token_data
                                           THEN token_data[k] ELSE None
                  /\ response.body.token_type = IF "token_type" \in DOMAIN token_data
                                                THEN token_data.token_type
                                                ELSE <<"Bearer">>
            /\ DOMAIN token_data \cap {"refresh_token", "none"} = {} =>
                  response = ErrorResponse(500, "TOKEN_EXCHANGE_FAILED", token_data)
            /\ "none" \in DOMAIN token_data =>
                  response = ErrorResponse(500, "REQUEST_FAILED", FaultText))
    /\ [][ExchangeKeepsSession]_vars

\* the provider answered with an error body, which is the message of the
\* reply, and the session still holds its code
C12_Witness ==
    /\ Exchanged
    /\ "error" \in DOMAIN token_data
    /\ response.body.message = token_data
    /\ Truthy(auth_code)
    /\ ~Truthy(error)

\* the error kinds of the core
CoreErrorKinds ==
    {"AUTOMATION_FAILED", "AUTH_CODE_MISSING", "TOKEN_EXCHANGE_FAILED", "REQUEST_FAILED"}

\* C13: every request is answered with the success record, or with an error
\* object of one of the four core kinds and HTTP 500, or with an error
\* object and HTTP 400 for missing input, no browser session having been
\* started; no fault of the core, that of launching or closing the browser
\* included, leaves the handler unhandled.
C13_EveryFailureStructured ==
    pc = "done" =>
        \/ /\ response.status = 200
           /\ "refresh_token" \in DOMAIN response.body
        \/ /\ response.status = 500
           /\ Kind(response) \in CoreErrorKinds
           /\ "message" \in DOMAIN response.body
        \/ /\ response.status = 400
           /\ Kind(response) \in {"INVALID_REQUEST", "MISSING_CREDENTIALS"}
           /\ "message" \in DOMAIN response.body
           /\ runs = 0
           /\ browser = "none"

\* the prompt loop is over and _handle_additional_prompts returns
PromptsOver == pc = "extract"

\* a pass that met a consent prompt and clicked its confirm control was
\* followed by a pass that met a stay-signed-in prompt and clicked its
\* confirm control
ConsentThenStay ==
    \E k \in 1..(Len(passes) - 1) :
       /\ SubSeq(passes[k], 1, 2) = <<"consent", "clicked">>
       /\ SubSeq(passes[k + 1], 1, 2) = <<"stay", "clicked">>

\* C14: a consent or stay-signed-in prompt that shows at the head of a pass
\* is taken up by the handler (its confirm list is tried: the pass does not
\* leave the loop while the browser is still on a provider page); when a consent prompt and then a stay-signed-in prompt
\* show, both confirm controls are clicked within max_attempts passes; and a
\* code recorded by the poll loop comes from a URL on the redirect URI with
\* a code parameter.
C14_BothPromptsDismissed ==
    /\ \A k \in 1..Len(passes) : passes[k][1] # "none" => passes[k][2] # "early"
    /\ (PromptsOver /\ ConsentThenStay) =>
          /\ {"consent", "stay"} \subseteq Range(dismissed)
          /\ Len(passes) <= max_attempts
          /\ attempt <= max_attempts
    /\ code_path = "poll" =>
          /\ Truthy(auth_code)
          /\ Contains(code_url, redirect_uri)
          /\ Contains(code_url, <<"code", "=">>)

\* a step keeps a non-empty auth_code, and a step that changes auth_code is
\* a step of _extract_auth_code that stores a non-empty code
AuthCodeWrittenOnce ==
    /\ Truthy(auth_code) => auth_code' = auth_code
    /\ auth_code' # auth_code =>
          /\ pc \in {"extract_poll", "extract_final"}
          /\ Truthy(auth_code')

\* C15: within a session auth_code is written at most once: once it is
\* non-empty no later step (of the poll loop, of the fallback or of anything
\* else) changes it, and only the code extractor writes it.
C15_AuthCodeSetOnce == [][AuthCodeWrittenOnce]_vars

\* the poll loop recorded a code and the fallback step has been passed
C15_Witness == pc = "extract_result" /\ code_path = "poll" /\ Truthy(auth_code)

\* the positions of the request inside the loop of the prompt handler
PromptLoopPcs == {"prompt_loop", "prompt_consent", "prompt_stay"}

\* a step of the prompt loop leaves the session error as it is and stays in
\* the loop or leaves it for the code extractor, which is then invoked
PromptLoopStep ==
    /\ pc \in PromptLoopPcs => error' = error /\ pc' \in PromptLoopPcs \cup {"extract"}
    /\ pc = "extract" => pc' = "extract_poll" /\ entered' = Append(entered, "CODE_EXTRACTION")

\* the passes of the prompt loop are at most max_attempts and no session
\* error is set while the loop runs
PromptLoopBounded ==
    /\ attempt <= max_attempts
    /\ Len(passes) <= max_attempts
    /\ pc \in PromptLoopPcs \cup {"extract"} => ~Truthy(error)

\* C16 as stated: the prompt loop makes at most 3 passes, hence at most 3
\* confirm clicks, whatever the page shows; neither the exhausted budget nor
\* a fault inside a pass sets the session error; and when the loop ends the
\* code extractor is invoked.
C16_AtMostThreeClicks ==
    /\ [](PromptLoopBounded /\ Len(dismissed) <= max_attempts)
    /\ [][PromptLoopStep]_vars

\* C16 amended: at most 3 passes, each ending with at most one accepted
\* click; a click whose settle wait raises is not accepted and the next
\* candidate of the list is clicked, so the clicks are bounded by the
\* candidates tried (the longer list in each pass), not by 3; no session
\* error is set by the loop and the code extractor is invoked when it ends.
C16_ThreePassesThenExtract ==
    /\ [](/\ PromptLoopBounded
          /\ Len(dismissed) <= max_attempts * Len(accept_selectors)
          /\ \A k \in 1..Len(passes) : passes[k][2] = "clicked" => Len(dismissed) >= 1)
    /\ [][PromptLoopStep]_vars

\* the budget of 3 passes is used up, more than 3 clicks were made and the
\* handler returns with no session error
C16_Witness ==
    /\ PromptsOver
    /\ attempt = max_attempts
    /\ Len(dismissed) > max_attempts
    /\ ~Truthy(error)

\* the classifier returned from its stuck-page branch: the URL was on the
\* login-post endpoint before and after the extra settle wait and the page
\* text was read again
ReturnedStuck == pc = "status_decide" /\ status_path = "stuck"

\* C17: in the stuck-page branch the scan of the phrase table is run again
\* on the text read after the wait: the outcome is that of the first row
\* found in that text, and INVALID_CREDENTIALS only if no row is found.
C17_StuckPageRescans ==
    ReturnedStuck =>
        account_status =
            IF Truthy(final_content) /\ ScanIndicators(Lower(final_content)) # "NONE"
            THEN ScanIndicators(Lower(final_content))
            ELSE "INVALID_CREDENTIALS"

\* _check_account_status was entered and has not returned an outcome
ClassifierUnfinished == "STATUS_CHECK" \in Range(entered) /\ account_status = "unset"

\* C18: a fault raised while the classifier runs (in its first settle delay,
\* in a read of a validation element, of the page text or of the URL, or in
\* the stuck-page re-check) makes it return OK: the fault sets no session
\* error and the prompt handler runs after the classifier.
C18_ClassifierFaultIsOk ==
    /\ (pc = "status_decide" /\ status_fault) => account_status = "OK"
    /\ ClassifierUnfinished => ~Truthy(error)
    /\ (SessionEnded /\ ClassifierUnfinished) => "PROMPT_RESOLUTION" \in Range(entered)

\* self.error after a driver fault reached the except clause of
\* automate_login
AutomationFault == <<"Automation error: ">> \o FaultText

\* the positions at which a driver call stands directly in the try block
\* of automate_login or of a step, under no except clause of the step
UnguardedPcs == {"goto", "email_wait", "password_wait", "status_wait", "prompt_wait"}

\* C19 as stated: a driver fault in any state of the login state machine
\* ends the session FAILED with the automation error carrying the fault
\* text, and nothing is retried: at most one navigation to the authorize
\* URL and one run of automate_login per request.
C19_AnyFaultFails ==
    /\ navs <= 1
    /\ runs <= 1
    /\ (swallowed /\ SessionEnded) => error = AutomationFault

\* the automation error with the fault text is set only by a step at an
\* unguarded position, which ends the machine; a step in which a local
\* except clause caught a fault does not set it
FaultStep ==
    /\ (error' = AutomationFault /\ error # AutomationFault) =>
          pc \in UnguardedPcs /\ pc' = "finally"
    /\ (swallowed' /\ ~swallowed) => error' # AutomationFault

\* C19 amended: a driver fault in the navigation or in the entry waits of a
\* step ends the session FAILED with the automation error carrying the fault
\* text (no code, no later state, no POST); a fault caught by an except
\* clause of a step does not; and nothing is retried: at most one navigation
\* and one run of automate_login per request, exactly one run for a request
\* with credentials.
C19_UnguardedFaultFails ==
    /\ [](/\ navs <= 1
          /\ runs <= 1
          /\ pc = "done" => (runs = 1 <=> response.status # 400)
          /\ "START" \in Range(entered) <=> navs = 1
          /\ error = AutomationFault =>
                /\ ~Truthy(auth_code)
                /\ posts = 0
                /\ pc \in {"finally", "respond", "raised", "done"}
                /\ "CODE_EXTRACTION" \notin Range(entered))
    /\ [][FaultStep]_vars

\* a fault caught inside a step was followed by a fault in the entry wait of
\* a later step, and the one request was answered with the automation error
C19_Witness ==
    /\ pc = "done"
    /\ swallowed
    /\ error = AutomationFault
    /\ response = ErrorResponse(500, "AUTOMATION_FAILED", AutomationFault)
    /\ navs = 1
    /\ runs = 1

\* the states of the login state machine, in the order of automate_login
StateOrder ==
    << "START", "EMAIL_ENTRY", "PASSWORD_ENTRY", "STATUS_CHECK", "PROMPT_RESOLUTION",
       "CODE_EXTRACTION" >>

\* the session failed in the step that is state number n of StateOrder: no
\* later state was entered, no field of the step was filled, no code stored
FailedIn(n) ==
    /\ entered = SubSeq(StateOrder, 1, n)
    /\ ~FieldFilled
    /\ ~Truthy(auth_code)
    /\ pc \in {"finally", "respond", "raised", "done"}

\* a step that enters PASSWORD_ENTRY or STATUS_CHECK leaves a state whose
\* field was filled
EntersAfterFill ==
    (entered' # entered /\ Len(entered') \in {3, 4}) => FieldFilled

\* C20: the states are entered in the order EMAIL_ENTRY, PASSWORD_ENTRY,
\* STATUS_CHECK, PROMPT_RESOLUTION, CODE_EXTRACTION, each at most once and
\* after all earlier ones; email entry and password entry are left forward
\* only with their field filled; and if no email (password) candidate
\* resolves, no later state is entered and the session ends with the error
\* naming that step.
C20_ForwardOnly ==
    /\ [](/\ Len(entered) <= Len(StateOrder)
          /\ entered = SubSeq(StateOrder, 1, Len(entered))
          /\ pc \in {"password_wait", "status_wait"} => FieldFilled
          /\ error = <<"Automation error: ", "Unable to enter email">> => FailedIn(2)
          /\ error = <<"Automation error: ", "Unable to enter password">> => FailedIn(3))
    /\ [][EntersAfterFill]_vars

\* no password candidate resolved: the session ended in PASSWORD_ENTRY with
\* the error naming the step, and the request was answered with it
C20_Witness ==
    /\ pc = "done"
    /\ error = <<"Automation error: ", "Unable to enter password">>
    /\ entered = SubSeq(StateOrder, 1, 3)
    /\ Kind(response) = "AUTOMATION_FAILED"

\* pass k of the prompt loop ran its candidate list to the end and nothing
\* was accepted
Missed(k) == passes[k][2] = "missed"

\* pass k of the prompt loop was not at the redirect target and is over
Handled(k) == passes[k][2] \in {"clicked", "missed"}

\* C21: in a pass that is not at the redirect target the two keyword sets
\* are evaluated independently: a text with a consent keyword has the
\* consent list tried, a text with a stay-signed-in keyword has the stay
\* list tried, also when the other set matches and its list brought no
\* click; the loop goes on after a click and stops only on a text that
\* matches neither set.
C21_KeywordSetsIndependent ==
    \A k \in 1..Len(passes) :
       /\ (Handled(k) /\ passes[k][1] \in {"consent", "both"}) =>
             "consent" \in passes[k][3]
       /\ (Handled(k) /\ passes[k][1] = "stay") => "stay" \in passes[k][3]
       /\ (Missed(k) /\ passes[k][1] = "both") => "stay" \in passes[k][3]
       /\ passes[k][2] = "stop" => passes[k][1] = "none"
       /\ passes[k][1] = "none" => passes[k][2] \in {"stop", "early", "callback"}

\* C22: the prompt loop takes its early exit only with the browser on the
\* redirect target itself: a pass that reads a recognised prompt on a
\* provider URL that merely holds the redirect URI in its query does not
\* leave the loop, and the candidate list of the prompt is tried.  (On a
\* page with no prompt the early exit and the no-prompt stop both leave the
\* loop.)
C22_EarlyExitOnlyAtRedirect ==
    \A k \in 1..Len(passes) :
       (passes[k][1] # "none" /\ passes[k][2] # "callback") =>
          /\ passes[k][2] \in {"open", "clicked", "missed"}
          /\ passes[k][3] # {}

\* the step of the poll loop in which a pass first raises keeps the loop
\* going and leaves the session error and auth_code as they are
PollFaultStep ==
    (pc = "extract_poll" /\ poll_fault' /\ ~poll_fault) =>
        /\ pc' = "extract_poll"
        /\ error' = error
        /\ auth_code' = auth_code

\* C23: a fault of a pass of the poll loop sets no session error and does
\* not end the loop: the loop is left without a code only at the timeout,
\* and when a later pass sees the redirect URI with a code the session ends
\* with that code and no error.
C23_PollFaultSwallowed ==
    /\ [](/\ (pc = "extract_final" /\ ~Truthy(auth_code)) =>
                elapsed >= timeout * TicksPerSecond
          /\ (pc \in {"extract_poll", "extract_final"} /\ poll_fault) => ~Truthy(error)
          /\ (poll_fault /\ Truthy(error)) =>
                /\ error = <<"Unable to extract authorization code">>
                /\ ~Truthy(auth_code)
          /\ (poll_fault /\ code_path = "poll") =>
                /\ auth_code = ParseQsFirst(UrlQuery(code_url), <<"code">>)
                /\ Truthy(auth_code)
                /\ ~Truthy(error))
    /\ [][PollFaultStep]_vars

\* a pass of the poll loop raised, a later pass recorded the code and
\* automate_login returned with the code and no error
C23_Witness ==
    /\ session = "returned"
    /\ poll_fault
    /\ code_path = "poll"
    /\ Truthy(auth_code)
    /\ ~Truthy(error)


----------------------------------------------------------------------------
(* the proceed control and the keyboard fallback *)

\* the positions of the two proceed loops and of the two keyboard fallbacks
ProceedPcs == { "email_next", "password_signin" }

EnterPcs == { "email_enter", "password_enter" }

\* the positions at which a step has handed over to the next one
SubmittedPcs == { "password_wait", "status_wait" }

\* the two errors raised by the keyboard fallbacks
EnterFailures ==
    { <<"Automation error: ">> \o <<"Unable to proceed after email entry">>,
      <<"Automation error: ">> \o <<"Unable to perform login">> }

\* C24 as stated: in EMAIL_ENTRY and PASSWORD_ENTRY Enter is pressed exactly
\* when no proceed candidate was clicked, so a step that hands over has
\* submitted exactly once (one click or one Enter), and a step that fails has
\* failed in the Enter press itself
C24_SubmitsExactlyOnce ==
    /\ pc \in EnterPcs => clicks = 0
    /\ pc \in SubmittedPcs => clicks + enters = 1
    /\ error \in EnterFailures => enters = 0

\* a step that leaves a proceed loop either hands over on the click it just
\* made, or goes to the keyboard fallback after the whole list was tried; a
\* step that sets the error while the proceed control is handled is the
\* keyboard fallback catching a fault
ProceedStep ==
    /\ (pc \in ProceedPcs /\ pc' # pc) =>
          \/ pc' \in SubmittedPcs /\ clicks' = clicks + 1 /\ enters' = 0
          \/ /\ pc' \in EnterPcs
             /\ i = IF pc = "email_next" THEN Len(next_selectors) ELSE Len(signin_selectors)
             /\ (clicks' # clicks => swallowed')
    /\ (pc \in ProceedPcs \cup EnterPcs /\ error' # error) =>
          /\ pc \in EnterPcs
          /\ swallowed'
          /\ error' \in EnterFailures

\* C24, amended: Enter is pressed exactly when no pass of the proceed loop
\* completed (click and settle wait both returned), after every candidate was
\* tried; a click whose settle wait raised does not count, so a step hands
\* over either on a completed click without Enter, or on one Enter that may
\* follow up to one click per candidate; the step fails only when the Enter
\* press or the settle wait after it raises
C24_EnterIffNoCompletedClick ==
    /\ [](/\ pc \in EnterPcs => enters = 0
          /\ pc \in SubmittedPcs =>
                \/ enters = 0 /\ clicks >= 1
                \/ enters = 1
          /\ enters <= 1
          /\ clicks <= Len(next_selectors)
          /\ error \in EnterFailures => (swallowed /\ pc \notin SubmittedPcs))
    /\ [][ProceedStep]_vars

\* the email step handed over after a click whose settle wait raised and the
\* Enter press that followed
C24_Witness == pc = "password_wait" /\ clicks >= 1 /\ enters = 1

====
